---- MODULE Spec2Model ----
(***************************************************************************)
(* A model of rustfm-scrobble's Scrobbler (src/src/scrobbler.rs): the      *)
(* session held by its LastFm client, the three authentication operations, *)
(* now_playing, scrobble, scrobble_batch and session_key.                  *)
(*                                                                         *)
(* One invocation runs at a time (the call model is synchronous).  An      *)
(* invocation is a frame (call, i, params, reads, sent, result) and a      *)
(* position pc:                                                            *)
(*   "idle"    no invocation is running                                    *)
(*   "loop"    scrobble_batch is in its for loop, i records processed      *)
(*   "pending" the collaborator call Last(sent) has been issued and has    *)
(*             not returned                                                *)
(*   "done"    the invocation has computed its return value, result        *)
(* Return drops the frame.  The clock and the collaborator's answers are   *)
(* the environment: each read and each answer is a nondeterministic input. *)
(***************************************************************************)
EXTENDS Integers, Sequences, FiniteSets, TLC

----------------------------------------------------------------------------
(* Bounds of the model *)

\* the clock takes the values 0..MaxClock
MaxClock == 1

\* batches of up to SmallLen records are enumerated in full
SmallLen == 2

\* the longest batch has MaxBatchSize + Overshoot records
Overshoot == 1

(* Program constant: the batch limit of scrobble_batch *)
MaxBatchSize == 50

----------------------------------------------------------------------------
(* Option<T>, Result<T, Error>, HashMap<String, String> *)

None == <<>>

Some(x) == <<x>>

Ok(v) == [ok |-> TRUE, val |-> v]

Err(msg) == [ok |-> FALSE, val |-> Some(msg)]

\* HashMap::new()
EmptyMap == <<>>

\* HashMap::insert: a later insert of the same key replaces the value
Insert(m, k, v) == (k :> v) @@ m

\* Entry::or_insert_with: the value is stored only when the key is vacant
OrInsert(m, k, v) == IF k \in DOMAIN m THEN m ELSE Insert(m, k, v)

Last(q) == q[Len(q)]

----------------------------------------------------------------------------
(* The Scrobble record model (crate::models::metadata) *)

Scrobble(artist, track, album, album_artist, timestamp) ==
    [artist |-> artist, track |-> track, album |-> album,
     album_artist |-> album_artist, track_number |-> None,
     duration |-> None, timestamp |-> timestamp, mbid |-> None]

\* a record without a timestamp, which is defaulted at submission; its album
\* artist is set
Unstamped == Scrobble("artist", "track", "album", Some("album artist"), None)

\* the record of tests::check_scrobbler_scrobble, with an explicit timestamp
Stamped ==
    Scrobble("foo floyd and the fruit flies", "old bananas", "old bananas",
             None, Some(1337))

Scrobbles == {Unstamped, Stamped}

InsertOpt(m, k, o) == IF o = None THEN m ELSE Insert(m, k, o[1])

InsertOptInt(m, k, o) == IF o = None THEN m ELSE Insert(m, k, ToString(o[1]))

\* Scrobble::as_map: the required fields and each optional field that is set,
\* integers in decimal
as_map(s) ==
    LET m0 == Insert(Insert(Insert(EmptyMap, "artist", s.artist),
                            "track", s.track), "album", s.album)
        m1 == InsertOpt(m0, "albumArtist", s.album_artist)
        m2 == InsertOptInt(m1, "trackNumber", s.track_number)
        m3 == InsertOptInt(m2, "duration", s.duration)
        m4 == InsertOptInt(m3, "timestamp", s.timestamp)
    IN  InsertOpt(m4, "mbid", s.mbid)

(* ScrobbleBatch: an ordered sequence of Scrobbles.  The batches drawn are  *)
(* every sequence of up to SmallLen records, and the batches at the limit:  *)
(* MaxBatchSize .. MaxBatchSize + Overshoot records, any first record, any  *)
(* last record, the records between them Stamped.                           *)
BatchOf(first, last, n) ==
    [k \in 1..n |-> IF k = 1 THEN first ELSE IF k = n THEN last ELSE Stamped]

SmallBatches == UNION {[1..n -> Scrobbles] : n \in 0..SmallLen}

LargeBatches ==
    {BatchOf(first, last, n) : first \in Scrobbles, last \in Scrobbles,
                               n \in MaxBatchSize..(MaxBatchSize + Overshoot)}

Batches == SmallBatches \cup LargeBatches

----------------------------------------------------------------------------
(* Inputs *)

SessionKeys == {"key1", "key2"}

Logins == {<<"user1", "pass1">>, <<"user2", "pass2">>}

Tokens == {"token1", "token2"}

ClockValues == 0..MaxClock

TransportErrors == {"transport error"}

----------------------------------------------------------------------------
VARIABLES
    session_key,    \* client.auth's session key: None or Some(key)
    auth_failed,    \* TRUE once an authentication of this Scrobbler has failed
    credentials,    \* what set_user_credentials / set_user_token recorded
    now,            \* the value the clock returned when last read
    pc,             \* position of the running invocation
    call,           \* its operation and arguments
    i,              \* scrobble_batch: records processed so far
    params,         \* the parameter map under construction
    reads,          \* clock reads made by this invocation
    clock_ok,       \* FALSE once a clock read of this invocation has failed
    clock_monotone, \* FALSE once a clock read of this invocation has returned
                    \* less than the read before it
    sent,           \* collaborator calls issued by this invocation
    answers,        \* the collaborator's answers to them
    result,         \* its return value: None until computed
    entry_session,  \* session_key as it was when the invocation began
    entry_credentials   \* credentials as they were when it began

vars ==
    <<session_key, auth_failed, credentials, now, pc, call, i, params, reads,
      clock_ok, clock_monotone, sent, answers, result, entry_session,
      entry_credentials>>

NoCall == [name |-> "none", scrobble |-> None, batch |-> <<>>, text |-> None]

Invoke(name, s, b, text) == [name |-> name, scrobble |-> s, batch |-> b, text |-> text]

\* no login and no token recorded
NoCredentials == [login |-> None, token |-> None]

\* Scrobbler::new: a fresh client, not authenticated, nothing recorded
new ==
    /\ session_key = None
    /\ auth_failed = FALSE
    /\ credentials = NoCredentials
    /\ now = 0
    /\ pc = "idle"
    /\ call = NoCall
    /\ i = 0
    /\ params = EmptyMap
    /\ reads = 0
    /\ clock_ok = TRUE
    /\ clock_monotone = TRUE
    /\ sent = <<>>
    /\ answers = <<>>
    /\ result = None
    /\ entry_session = None
    /\ entry_credentials = NoCredentials

Init == new

----------------------------------------------------------------------------
(* The LastFm client (crate::client), as far as the Scrobbler uses it *)

\* LastFm::set_user_credentials
set_user_credentials(username, password) ==
    [credentials EXCEPT !.login = Some(<<username, password>>)]

\* LastFm::set_user_token
set_user_token(token) == [credentials EXCEPT !.token = Some(token)]

\* The request the client issues for one of its five network operations.
\* An authentication request carries the credentials recorded on the client.
Request(endpoint, auth, p) == [endpoint |-> endpoint, auth |-> auth, params |-> p]

AuthEndpoints == {"authenticate_with_password", "authenticate_with_token"}

SendEndpoints == {"send_now_playing", "send_scrobble", "send_batch_scrobbles"}

\* LastFm::authenticate_with_password, LastFm::authenticate_with_token: the
\* session key the client holds once the service has answered `resp`. A
\* successful authentication stores the key of the returned session, a
\* failed one leaves the key alone.
client_session_after(resp) == IF resp.ok THEN resp.val ELSE session_key

\* LastFm::session_key
client_session_key == session_key

----------------------------------------------------------------------------
(* Error and its conversions *)

TooLarge == "Scrobble batch too large (must be 50 or fewer scrobbles)"

Empty == "Scrobble batch is empty"

ClockError == "second time provided was later than self"

\* impl From<SystemTimeError> for Error, From<String> for Error: the message
\* is kept
From(msg) == Err(msg)

\* Forward, had it returned the callee's payload whatever the outcome
Forward_swallowing(resp) == Ok(resp.val)

\* Ok(call?) : an Err of the callee is converted and returned, an Ok value
\* is returned
Forward(resp) == IF resp.ok THEN Ok(resp.val) ELSE From(resp.val[1])

----------------------------------------------------------------------------
(* Parameter construction *)

\* default_timestamp, had it used insert instead of entry().or_insert_with
default_timestamp_overwriting(p, secs) == Insert(p, "timestamp", ToString(secs))

\* params.entry("timestamp").or_insert_with(|| format!("{}", secs))
default_timestamp(p, secs) == OrInsert(p, "timestamp", ToString(secs))

\* batch_key, had it counted the records from 1
batch_key_one_based(key, idx) == key \o "[" \o ToString(idx + 1) \o "]"

\* format!("{}[{}]", key, i)
batch_key(key, idx) == key \o "[" \o ToString(idx) \o "]"

\* for (key, val) in &scrobble_params { params.insert(batch_key, val) }
\* The iteration order of the HashMap does not matter: the keys of one record
\* are distinct, so are their re-keyed forms.
RECURSIVE insert_all(_, _, _, _)
insert_all(p, sp, idx, keys) ==
    IF keys = {} THEN p
    ELSE LET k == CHOOSE x \in keys : TRUE
         IN  insert_all(Insert(p, batch_key(k, idx), sp[k]), sp, idx, keys \ {k})

merge_record(p, sp, idx) == insert_all(p, sp, idx, DOMAIN sp)

\* batch_size_error, had it lacked the check for an empty batch
batch_size_error_no_empty(n) == IF n > MaxBatchSize THEN Some(TooLarge) ELSE None

\* batch_size_error, had the limit been exclusive
batch_size_error_exclusive(n) ==
    IF n >= MaxBatchSize THEN Some(TooLarge)
    ELSE IF n = 0 THEN Some(Empty)
    ELSE None

\* the checks on batch.len(): the error returned, or None
batch_size_error(n) ==
    IF n > MaxBatchSize THEN Some(TooLarge)
    ELSE IF n = 0 THEN Some(Empty)
    ELSE None

----------------------------------------------------------------------------
(* Steps shared by the operations *)

\* the invocation returns r without (further) collaborator calls
Finish(r) ==
    /\ result' = Some(r)
    /\ pc' = "done"

\* Issue, had the call been handed to the background and the invocation
\* gone on to return
Issue_detached(endpoint, auth, p) ==
    /\ sent' = Append(sent, Request(endpoint, auth, p))
    /\ pc' = "done"

\* the invocation issues one collaborator call and waits for it
Issue(endpoint, auth, p) ==
    /\ sent' = Append(sent, Request(endpoint, auth, p))
    /\ pc' = "pending"

\* UNIX_EPOCH.elapsed(): the system clock is read. It fails when it stands
\* before the epoch; otherwise it returns any time, as the system clock is
\* not monotonic.
ClockFails ==
    /\ reads' = reads + 1
    /\ clock_ok' = FALSE
    /\ UNCHANGED <<now, clock_monotone>>

ClockReturns(t) ==
    /\ t \in ClockValues
    /\ reads' = reads + 1
    /\ now' = t
    /\ clock_monotone' = (clock_monotone /\ (reads = 0 \/ t >= now))
    /\ UNCHANGED clock_ok

\* an invocation begins
Begin(name, s, b, text) ==
    /\ pc = "idle"
    /\ call' = Invoke(name, s, b, text)
    /\ entry_session' = session_key
    /\ entry_credentials' = credentials
    /\ UNCHANGED answers

----------------------------------------------------------------------------
(* The operations of Scrobbler *)

\* authenticate_with_password, had the call been issued before the
\* credentials were recorded
authenticate_with_password_stale(username, password) ==
    /\ Begin("authenticate_with_password", None, <<>>, <<username, password>>)
    /\ Issue("authenticate_with_password", credentials.login, EmptyMap)
    /\ credentials' = set_user_credentials(username, password)
    /\ UNCHANGED <<session_key, auth_failed, now, i, params, reads, clock_ok,
                   clock_monotone, result>>

authenticate_with_password(username, password) ==
    /\ Begin("authenticate_with_password", None, <<>>, <<username, password>>)
    /\ credentials' = set_user_credentials(username, password)
    /\ Issue("authenticate_with_password", credentials'.login, EmptyMap)
    /\ UNCHANGED <<session_key, auth_failed, now, i, params, reads, clock_ok,
                   clock_monotone, result>>

authenticate_with_token(token) ==
    /\ Begin("authenticate_with_token", None, <<>>, <<token>>)
    /\ credentials' = set_user_token(token)
    /\ Issue("authenticate_with_token", credentials'.token, EmptyMap)
    /\ UNCHANGED <<session_key, auth_failed, now, i, params, reads, clock_ok,
                   clock_monotone, result>>

\* authenticate_with_session_key, had it kept the key of a session that is
\* already authenticated
authenticate_with_session_key_once(key) ==
    /\ Begin("authenticate_with_session_key", None, <<>>, <<key>>)
    /\ session_key' = IF session_key = None THEN Some(key) ELSE session_key
    /\ Finish(Ok(None))
    /\ UNCHANGED <<auth_failed, credentials, now, i, params, reads, clock_ok,
                   clock_monotone, sent>>

authenticate_with_session_key(key) ==
    /\ Begin("authenticate_with_session_key", None, <<>>, <<key>>)
    /\ session_key' = Some(key)
    /\ Finish(Ok(None))
    /\ UNCHANGED <<auth_failed, credentials, now, i, params, reads, clock_ok,
                   clock_monotone, sent>>

\* now_playing, had it defaulted the timestamp as scrobble does
now_playing_stamping(s) ==
    /\ Begin("now_playing", Some(s), <<>>, None)
    /\ \/ /\ ClockFails
          /\ params' = as_map(s)
          /\ Finish(From(ClockError))
          /\ UNCHANGED sent
       \/ \E t \in ClockValues :
          /\ ClockReturns(t)
          /\ params' = default_timestamp(as_map(s), t)
          /\ Issue("send_now_playing", None, params')
          /\ UNCHANGED result
    /\ UNCHANGED <<session_key, auth_failed, credentials, i>>

now_playing(s) ==
    /\ Begin("now_playing", Some(s), <<>>, None)
    /\ params' = as_map(s)
    /\ Issue("send_now_playing", None, params')
    /\ UNCHANGED <<session_key, auth_failed, credentials, now, i, reads,
                   clock_ok, clock_monotone, result>>

\* scrobble, had it refused to submit without a session
scrobble_guarded(s) ==
    /\ Begin("scrobble", Some(s), <<>>, None)
    /\ IF session_key = None
       THEN /\ params' = EmptyMap
            /\ Finish(Err("not authenticated"))
            /\ UNCHANGED <<now, reads, clock_ok, clock_monotone, sent>>
       ELSE \/ /\ ClockFails
               /\ params' = as_map(s)
               /\ Finish(From(ClockError))
               /\ UNCHANGED sent
            \/ \E t \in ClockValues :
               /\ ClockReturns(t)
               /\ params' = default_timestamp(as_map(s), t)
               /\ Issue("send_scrobble", None, params')
               /\ UNCHANGED result
    /\ UNCHANGED <<session_key, auth_failed, credentials, i>>

scrobble(s) ==
    /\ Begin("scrobble", Some(s), <<>>, None)
    /\ \/ /\ ClockFails
          /\ params' = as_map(s)
          /\ Finish(From(ClockError))
          /\ UNCHANGED sent
       \/ \E t \in ClockValues :
          /\ ClockReturns(t)
          /\ params' = default_timestamp(as_map(s), t)
          /\ Issue("send_scrobble", None, params')
          /\ UNCHANGED result
    /\ UNCHANGED <<session_key, auth_failed, credentials, i>>

\* scrobble_batch up to its for loop
scrobble_batch(b) ==
    /\ Begin("scrobble_batch", None, b, None)
    /\ params' = EmptyMap
    /\ IF batch_size_error(Len(b)) # None
       THEN /\ Finish(From(batch_size_error(Len(b))[1]))
            /\ UNCHANGED i
       ELSE /\ pc' = "loop"
            /\ i' = 0
            /\ UNCHANGED result
    /\ UNCHANGED <<session_key, auth_failed, credentials, now, reads,
                   clock_ok, clock_monotone, sent>>

\* scrobble_batch_record, had a failed clock read ended the loop and let the
\* records merged so far be sent
scrobble_batch_record_partial ==
    /\ pc = "loop"
    /\ i < Len(call.batch)
    /\ \/ /\ ClockFails
          /\ Issue("send_batch_scrobbles", None, params)
          /\ UNCHANGED <<i, params, result>>
       \/ \E t \in ClockValues :
          /\ ClockReturns(t)
          /\ params' = merge_record(params,
                                    default_timestamp(as_map(call.batch[i + 1]), t), i)
          /\ i' = i + 1
          /\ UNCHANGED <<pc, sent, result>>
    /\ UNCHANGED <<session_key, auth_failed, credentials, call, answers,
                   entry_session, entry_credentials>>

\* scrobble_batch_record, had the clock been read for the first record only
\* and that time been used for the whole batch
scrobble_batch_record_snapshot ==
    /\ pc = "loop"
    /\ i < Len(call.batch)
    /\ \/ /\ i = 0
          /\ ClockFails
          /\ Finish(From(ClockError))
          /\ UNCHANGED <<i, params>>
       \/ /\ i = 0
          /\ \E t \in ClockValues :
                /\ ClockReturns(t)
                /\ params' = merge_record(params,
                                          default_timestamp(as_map(call.batch[1]), t), 0)
          /\ i' = 1
          /\ UNCHANGED <<pc, result>>
       \/ /\ i > 0
          /\ params' = merge_record(params,
                                    default_timestamp(as_map(call.batch[i + 1]), now), i)
          /\ i' = i + 1
          /\ UNCHANGED <<pc, result, now, reads, clock_ok, clock_monotone>>
    /\ UNCHANGED <<session_key, auth_failed, credentials, call, sent, answers,
                   entry_session, entry_credentials>>

\* one iteration of the for loop, on the record with index i
scrobble_batch_record ==
    /\ pc = "loop"
    /\ i < Len(call.batch)
    /\ \/ /\ ClockFails
          /\ Finish(From(ClockError))
          /\ UNCHANGED <<i, params>>
       \/ \E t \in ClockValues :
          /\ ClockReturns(t)
          /\ params' = merge_record(params,
                                    default_timestamp(as_map(call.batch[i + 1]), t), i)
          /\ i' = i + 1
          /\ UNCHANGED <<pc, result>>
    /\ UNCHANGED <<session_key, auth_failed, credentials, call, sent, answers,
                   entry_session, entry_credentials>>

\* the loop is over: self.client.send_batch_scrobbles(&params)
scrobble_batch_send ==
    /\ pc = "loop"
    /\ i = Len(call.batch)
    /\ Issue("send_batch_scrobbles", None, params)
    /\ UNCHANGED <<session_key, auth_failed, credentials, now, call, i,
                   params, reads, clock_ok, clock_monotone, result, answers,
                   entry_session, entry_credentials>>

\* session_key_value, had it not asked the client
session_key_value_absent == None

\* Scrobbler::session_key
session_key_value == client_session_key

get_session_key ==
    /\ Begin("session_key", None, <<>>, None)
    /\ Finish(Ok(session_key_value))
    /\ UNCHANGED <<session_key, auth_failed, credentials, now, i, params,
                   reads, clock_ok, clock_monotone, sent>>

----------------------------------------------------------------------------
(* The collaborator answers the pending call, and the operation returns *)

AuthResponses == {Ok(Some(k)) : k \in SessionKeys} \cup {Err(e) : e \in TransportErrors}

SendResponses == {Ok(Some("accepted"))} \cup {Err(e) : e \in TransportErrors}

\* the pending call returns resp
Answer(resp) ==
    /\ pc = "pending"
    /\ answers' = Append(answers, resp)
    /\ UNCHANGED <<credentials, now, call, i, params, reads, clock_ok,
                   clock_monotone, sent, entry_session, entry_credentials>>

\* authenticate_returns, had a failure been remembered and returned again
authenticate_returns_sticky ==
    /\ pc = "pending"
    /\ Last(sent).endpoint \in AuthEndpoints
    /\ \E resp \in AuthResponses :
          LET seen == IF auth_failed THEN Err("transport error") ELSE resp
          IN  /\ Answer(resp)
              /\ session_key' = client_session_after(seen)
              /\ auth_failed' = (auth_failed \/ ~resp.ok)
              /\ Finish(Forward(seen))

\* Ok(self.client.authenticate_with_password()?) and
\* Ok(self.client.authenticate_with_token()?): the client has stored the key
\* of a returned session, and the operation forwards the answer
authenticate_returns ==
    /\ pc = "pending"
    /\ Last(sent).endpoint \in AuthEndpoints
    /\ \E resp \in AuthResponses :
          /\ Answer(resp)
          /\ session_key' = client_session_after(resp)
          /\ auth_failed' = (auth_failed \/ ~resp.ok)
          /\ Finish(Forward(resp))

\* send_returns, had a rejected call ended the session
send_returns_invalidating ==
    /\ pc = "pending"
    /\ Last(sent).endpoint \in SendEndpoints
    /\ \E resp \in SendResponses :
          /\ Answer(resp)
          /\ Finish(Forward(resp))
          /\ session_key' = IF resp.ok THEN session_key ELSE None
          /\ UNCHANGED auth_failed

\* send_returns, had a rejected call been issued once more
send_returns_retrying ==
    /\ pc = "pending"
    /\ Last(sent).endpoint \in SendEndpoints
    /\ \E resp \in SendResponses :
          /\ answers' = Append(answers, resp)
          /\ IF resp.ok \/ Len(sent) > 1
             THEN Finish(Forward(resp)) /\ UNCHANGED sent
             ELSE /\ sent' = Append(sent, Last(sent))
                  /\ UNCHANGED <<pc, result>>
          /\ UNCHANGED <<session_key, auth_failed, credentials, now, call, i,
                         params, reads, clock_ok, clock_monotone,
                         entry_session, entry_credentials>>

\* Ok(self.client.send_now_playing(&params)?), Ok(self.client.send_scrobble(
\* &params)?) and Ok(self.client.send_batch_scrobbles(&params)?): the
\* operation, which holds the Scrobbler by &self, forwards the answer
send_returns ==
    /\ pc = "pending"
    /\ Last(sent).endpoint \in SendEndpoints
    /\ \E resp \in SendResponses :
          /\ Answer(resp)
          /\ Finish(Forward(resp))
          /\ UNCHANGED <<session_key, auth_failed>>

\* the caller has the result; the frame is dropped
Return ==
    /\ pc = "done"
    /\ pc' = "idle"
    /\ call' = NoCall
    /\ i' = 0
    /\ params' = EmptyMap
    /\ reads' = 0
    /\ clock_ok' = TRUE
    /\ clock_monotone' = TRUE
    /\ sent' = <<>>
    /\ answers' = <<>>
    /\ result' = None
    /\ entry_session' = None
    /\ entry_credentials' = NoCredentials
    /\ UNCHANGED <<session_key, auth_failed, credentials, now>>

----------------------------------------------------------------------------
Next ==
    \/ \E l \in Logins : authenticate_with_password(l[1], l[2])
    \/ \E t \in Tokens : authenticate_with_token(t)
    \/ \E k \in SessionKeys : authenticate_with_session_key(k)
    \/ \E s \in Scrobbles : now_playing(s)
    \/ \E s \in Scrobbles : scrobble(s)
    \/ \E b \in Batches : scrobble_batch(b)
    \/ scrobble_batch_record
    \/ scrobble_batch_send
    \/ get_session_key
    \/ authenticate_returns
    \/ send_returns
    \/ Return

Spec == Init /\ [][Next]_vars

\* The calls are synchronous and the loop is a for loop over the batch: a
\* clock read returns, a loop that is over goes on to the send, and a
\* collaborator call returns. Whether the caller makes a further call is
\* left open.
Fairness ==
    /\ WF_vars(scrobble_batch_record)
    /\ WF_vars(scrobble_batch_send)
    /\ WF_vars(authenticate_returns)
    /\ WF_vars(send_returns)

\* Whether an invocation returns does not depend on which credentials it is
\* given: the specification of the fair behaviours draws one login, one
\* token and one session key, and everything else as Next does.
LiveNext ==
    \/ authenticate_with_password("user1", "pass1")
    \/ authenticate_with_token("token1")
    \/ authenticate_with_session_key("key1")
    \/ \E s \in Scrobbles : now_playing(s)
    \/ \E s \in Scrobbles : scrobble(s)
    \/ \E b \in Batches : scrobble_batch(b)
    \/ scrobble_batch_record
    \/ scrobble_batch_send
    \/ get_session_key
    \/ authenticate_returns
    \/ send_returns
    \/ Return

LiveSpec == Init /\ [][LiveNext]_vars /\ Fairness

----------------------------------------------------------------------------
(* Properties *)

Running(name) == call.name = name

Returned(name) == pc = "done" /\ call.name = name

Succeeded(name) == Returned(name) /\ result # None /\ result[1].ok

\* the parameter name `name[index]` of the batch encoding
Indexed(name, index) == name \o "[" \o ToString(index) \o "]"

\* C1: scrobble_batch on a batch of more than 50 records returns the size
\* error and on a batch of no records the empty-batch error, which is
\* another error; the call returns at once, having issued no collaborator
\* call and read no clock, whatever the session is.
C1_InvalidBatchRejected ==
    /\ TooLarge # Empty
    /\ (Running("scrobble_batch") /\ Len(call.batch) > MaxBatchSize) =>
          /\ pc = "done"
          /\ result = Some(Err(TooLarge))
          /\ sent = <<>> /\ answers = <<>> /\ reads = 0
    /\ (Running("scrobble_batch") /\ Len(call.batch) = 0) =>
          /\ pc = "done"
          /\ result = Some(Err(Empty))
          /\ sent = <<>> /\ answers = <<>> /\ reads = 0

\* a batch of 51 records has been rejected on an authenticated session
C1_Witness ==
    /\ Returned("scrobble_batch")
    /\ Len(call.batch) = MaxBatchSize + 1
    /\ session_key # None
    /\ result = Some(Err(TooLarge))

\* C2: a batch of 1 to 50 records is never rejected for its size, and when
\* every clock read succeeds and the collaborator accepts what it is sent,
\* scrobble_batch has issued exactly one call, send_batch_scrobbles, and
\* returns success.
C2_BoundaryInclusive ==
    (Running("scrobble_batch") /\ Len(call.batch) \in 1..MaxBatchSize) =>
        /\ result \notin {Some(Err(TooLarge)), Some(Err(Empty))}
        /\ (pc = "done" /\ clock_ok /\ \A k \in 1..Len(answers) : answers[k].ok) =>
              /\ Len(sent) = 1
              /\ sent[1].endpoint = "send_batch_scrobbles"
              /\ Len(answers) = 1
              /\ result = Some(Ok(answers[1].val))

\* a batch of exactly 50 records has been submitted and accepted
C2_Witness ==
    /\ Succeeded("scrobble_batch")
    /\ Len(call.batch) = MaxBatchSize
    /\ Len(sent) = 1

\* C3: the parameter set handed to send_batch_scrobbles holds, for each
\* record of the batch at its 0-based position j, the entries of the
\* record's as_map() under the names name[j], and timestamp[j] with a clock
\* value for a record that has no timestamp, and holds nothing else.
C3_BatchEncoding ==
    \A q \in 1..Len(sent) :
        sent[q].endpoint = "send_batch_scrobbles" =>
            LET p == sent[q].params
                n == Len(call.batch)
                m(j) == as_map(call.batch[j + 1])
            IN  /\ DOMAIN p =
                     UNION {{Indexed(name, j) : name \in DOMAIN m(j) \cup {"timestamp"}} :
                            j \in 0..(n - 1)}
                /\ \A j \in 0..(n - 1) :
                      /\ \A name \in DOMAIN m(j) : p[Indexed(name, j)] = m(j)[name]
                      /\ p[Indexed("timestamp", j)] \in
                             {ToString(secs) : secs \in ClockValues} \cup
                             {ToString(call.batch[j + 1].timestamp[k]) :
                                  k \in 1..Len(call.batch[j + 1].timestamp)}

\* a batch of two different records has been handed over, the second one
\* under the index 1
C3_Witness ==
    /\ Running("scrobble_batch")
    /\ call.batch = <<Unstamped, Stamped>>
    /\ Len(sent) = 1
    /\ sent[1].params["artist[1]"] = Stamped.artist
    /\ sent[1].params["artist[0]"] = Unstamped.artist

\* C4: the map scrobble() hands to send_scrobble holds the entries of the
\* record's as_map() unchanged, its explicit timestamp among them, and for a
\* record without a timestamp the value of the clock read of this call in
\* decimal under `timestamp`, and holds nothing else.
C4_ScrobbleTimestamp ==
    Running("scrobble") =>
        /\ reads = 1
        /\ \A q \in 1..Len(sent) :
              LET p == sent[q].params
                  m == as_map(call.scrobble[1])
              IN  /\ sent[q].endpoint = "send_scrobble"
                  /\ DOMAIN p = DOMAIN m \cup {"timestamp"}
                  /\ \A name \in DOMAIN m : p[name] = m[name]
                  /\ call.scrobble[1].timestamp = None => p["timestamp"] = ToString(now)

\* a record with the explicit timestamp 1337 has been scrobbled when the
\* clock stood elsewhere
C4_Witness ==
    /\ Succeeded("scrobble")
    /\ call.scrobble = Some(Stamped)
    /\ now # 1337
    /\ sent[1].params["timestamp"] = "1337"

\* C5: now_playing hands exactly the record's as_map() to send_now_playing
\* and never reads the clock.
C5_NowPlayingUnmodified ==
    Running("now_playing") =>
        /\ reads = 0
        /\ Len(sent) = 1
        /\ sent[1].endpoint = "send_now_playing"
        /\ sent[1].params = as_map(call.scrobble[1])

\* a record without a timestamp has been reported as now playing, and no
\* timestamp was sent
C5_Witness ==
    /\ Succeeded("now_playing")
    /\ call.scrobble = Some(Unstamped)
    /\ "timestamp" \notin DOMAIN sent[1].params

PasswordOrToken == {"authenticate_with_password", "authenticate_with_token"}

\* C6: while authenticate_with_password or authenticate_with_token has not
\* been answered with a session, the session key is the one the client held
\* when the call began; a call the collaborator answers with an error
\* returns that error.
C6_FailedAuthKeepsSession ==
    (call.name \in PasswordOrToken /\ \A k \in 1..Len(answers) : ~answers[k].ok) =>
        /\ session_key = entry_session
        /\ pc = "done" =>
              /\ Len(answers) = 1
              /\ result = Some(Err(answers[1].val[1]))

\* an authentication has failed on a session authenticated with key1
C6_Witness ==
    /\ Returned("authenticate_with_password")
    /\ ~answers[1].ok
    /\ entry_session = Some("key1")
    /\ session_key = Some("key1")
    /\ ~result[1].ok

\* C7: when authenticate_with_password or authenticate_with_token returns
\* after the collaborator answered with the session key K, the client holds
\* K, session_key() gives K and the call returns the session; and
\* session_key() returns the key the client holds.
C7_SuccessfulAuthStoresKey ==
    /\ (call.name \in PasswordOrToken /\ pc = "done" /\ Len(answers) = 1
            /\ answers[1].ok) =>
          /\ session_key = answers[1].val
          /\ session_key_value = answers[1].val
          /\ result = Some(Ok(answers[1].val))
    /\ Returned("session_key") => result = Some(Ok(session_key))

\* a session authenticated with key1 has been re-authenticated with key2
C7_Witness ==
    /\ Returned("authenticate_with_token")
    /\ answers = <<Ok(Some("key2"))>>
    /\ entry_session = Some("key1")
    /\ session_key = Some("key2")

\* C8: authenticate_with_session_key(k) returns at once and without an
\* error, issues no collaborator call, and leaves the client holding k, which
\* is what session_key() gives then, whatever the session was before.
C8_SessionKeyAuth ==
    Running("authenticate_with_session_key") =>
        /\ pc = "done"
        /\ result = Some(Ok(None))
        /\ sent = <<>> /\ answers = <<>>
        /\ session_key = Some(call.text[1])
        /\ session_key_value = Some(call.text[1])

\* authenticate_with_session_key("key2") has replaced the key key1
C8_Witness ==
    /\ Returned("authenticate_with_session_key")
    /\ call.text = <<"key2">>
    /\ entry_session = Some("key1")
    /\ session_key = Some("key2")

\* C9: the session key changes only in a step of
\* authenticate_with_session_key, or when authenticate_with_password or
\* authenticate_with_token is answered with a session: no step of
\* now_playing, scrobble, scrobble_batch or session_key, and no return to the
\* caller, changes it.
C9_SessionChangesOnlyByAuth ==
    [][session_key' # session_key =>
          \/ call'.name = "authenticate_with_session_key"
          \/ /\ call'.name \in PasswordOrToken
             /\ answers' # <<>>
             /\ Last(answers').ok]_vars

\* a batch the collaborator rejected has returned on an authenticated
\* session, which is as it was
C9_Witness ==
    /\ Returned("scrobble_batch")
    /\ answers # <<>>
    /\ ~answers[1].ok
    /\ entry_session = Some("key2")
    /\ session_key = Some("key2")

\* C10: scrobble_batch issues no collaborator call at all, or exactly one
\* send_batch_scrobbles call whose parameters hold every record of the
\* batch; after a failed clock read it issues none.
C10_NoPartialBatch ==
    Running("scrobble_batch") =>
        /\ ~clock_ok => sent = <<>>
        /\ \/ sent = <<>>
           \/ /\ Len(sent) = 1
              /\ sent[1].endpoint = "send_batch_scrobbles"
              /\ i = Len(call.batch)
              /\ \A j \in 0..(Len(call.batch) - 1) :
                    {Indexed("artist", j), Indexed("track", j), Indexed("album", j),
                     Indexed("timestamp", j)} \subseteq DOMAIN sent[1].params

\* the clock failed on the second record of a batch: the first record was
\* merged and nothing was sent
C10_Witness ==
    /\ Returned("scrobble_batch")
    /\ ~clock_ok
    /\ i = 1
    /\ DOMAIN params # {}
    /\ sent = <<>>
    /\ result = Some(Err(ClockError))

NetworkOperations ==
    {"now_playing", "scrobble", "scrobble_batch", "authenticate_with_password",
     "authenticate_with_token"}

\* C11: an invocation of now_playing, scrobble, scrobble_batch,
\* authenticate_with_password or authenticate_with_token issues at most one
\* collaborator call, which is answered at most once, and when the answer is
\* an error the invocation returns an error with the collaborator's message.
C11_ErrorsForwardedNotRetried ==
    call.name \in NetworkOperations =>
        /\ Len(sent) <= 1
        /\ Len(answers) <= Len(sent)
        /\ (pc = "done" /\ answers # <<>> /\ ~answers[1].ok) =>
              /\ result # None
              /\ ~result[1].ok
              /\ result[1].val = answers[1].val

\* a scrobble the collaborator rejected has returned the error after its one
\* call
C11_Witness ==
    /\ Returned("scrobble")
    /\ Len(sent) = 1
    /\ answers = <<Err("transport error")>>
    /\ result = Some(Err("transport error"))

\* C12: whatever authentications have failed before on this Scrobbler, an
\* authenticate_with_password or authenticate_with_token call succeeds
\* exactly when the collaborator answers this call with a session, and then
\* returns that session and leaves its key with the client.
C12_AuthFailureNotSticky ==
    (call.name \in PasswordOrToken /\ pc = "done") =>
        /\ Len(answers) = 1
        /\ result # None
        /\ result[1].ok = answers[1].ok
        /\ answers[1].ok =>
              /\ result[1].val = answers[1].val
              /\ session_key = answers[1].val

\* as in tests::make_scrobbler_pass_auth: on a Scrobbler that was never
\* authenticated and whose authentication has failed, a further
\* authenticate_with_password has succeeded
C12_Witness ==
    /\ Returned("authenticate_with_password")
    /\ auth_failed
    /\ entry_session = None
    /\ answers[1].ok
    /\ result[1].ok
    /\ session_key # None

AllStamped(b) == \A k \in 1..Len(b) : b[k].timestamp # None

\* C13: scrobble() of a record with an explicit timestamp, and
\* scrobble_batch() of a batch of 1 to 50 records that all have one, do not
\* return a clock error and do reach the collaborator, whatever the clock
\* does.
C13_ClockErrorOnlyWhenNeeded ==
    /\ (Returned("scrobble") /\ call.scrobble[1].timestamp # None) =>
          /\ result # Some(Err(ClockError))
          /\ Len(sent) = 1
    /\ (Returned("scrobble_batch") /\ Len(call.batch) \in 1..MaxBatchSize
            /\ AllStamped(call.batch)) =>
          /\ result # Some(Err(ClockError))
          /\ Len(sent) = 1

SubmitOperations == {"now_playing", "scrobble", "scrobble_batch"}

\* C14: now_playing, scrobble and scrobble_batch (of 1 to 50 records) called
\* without a session issue their collaborator call all the same, provided
\* the clock reads succeed, and return what the collaborator answers: its
\* error or its success.
C14_NoAuthenticationPreCheck ==
    (/\ call.name \in SubmitOperations
     /\ entry_session = None
     /\ pc = "done"
     /\ clock_ok
     /\ call.name = "scrobble_batch" => Len(call.batch) \in 1..MaxBatchSize) =>
        /\ Len(sent) = 1
        /\ DOMAIN sent[1].params # {}
        /\ Len(answers) = 1
        /\ result = Some(IF answers[1].ok THEN Ok(answers[1].val)
                                          ELSE Err(answers[1].val[1]))

\* a scrobble made without a session has been sent, and accepted by the
\* collaborator
C14_Witness ==
    /\ Succeeded("scrobble")
    /\ entry_session = None
    /\ session_key = None
    /\ Len(sent) = 1

\* the seconds a defaulted timestamp parameter stands for
Secs(text) == CHOOSE secs \in ClockValues : ToString(secs) = text

Defaulted(j) == call.batch[j + 1].timestamp = None

\* C15: in the loop of scrobble_batch the clock has been read once for each
\* record taken up, in index order; the record processed last has its
\* explicit timestamp, or else the value of the read made for it; and when no
\* read returned less than the read before it, the defaulted timestamps do
\* not decrease with the index.
C15_PerRecordTimestamp ==
    (Running("scrobble_batch") /\ Len(call.batch) \in 1..MaxBatchSize) =>
        /\ reads = i + (IF clock_ok THEN 0 ELSE 1)
        /\ i >= 1 =>
              params[Indexed("timestamp", i - 1)] =
                  IF Defaulted(i - 1) THEN ToString(now)
                  ELSE ToString(call.batch[i].timestamp[1])
        /\ clock_monotone =>
              \A j, k \in 0..(i - 1) :
                  (j < k /\ Defaulted(j) /\ Defaulted(k)) =>
                      Secs(params[Indexed("timestamp", j)]) <=
                          Secs(params[Indexed("timestamp", k)])

\* two records of one batch have been given different default timestamps by
\* a clock that went on between them
C15_Witness ==
    /\ Running("scrobble_batch")
    /\ call.batch = <<Unstamped, Unstamped>>
    /\ i = 2
    /\ reads = 2
    /\ clock_monotone
    /\ params["timestamp[0]"] = "0"
    /\ params["timestamp[1]"] = "1"

\* C16: the request of authenticate_with_password carries the username and
\* password of this invocation, and the client has them recorded from the
\* moment the call is issued, also after the call has failed; likewise for
\* authenticate_with_token and its token. Neither touches what the other
\* records.
C16_CredentialsOfThisCall ==
    /\ Running("authenticate_with_password") =>
          /\ Len(sent) = 1
          /\ sent[1].endpoint = "authenticate_with_password"
          /\ sent[1].auth = Some(call.text)
          /\ credentials.login = Some(call.text)
          /\ credentials.token = entry_credentials.token
    /\ Running("authenticate_with_token") =>
          /\ Len(sent) = 1
          /\ sent[1].endpoint = "authenticate_with_token"
          /\ sent[1].auth = Some(call.text[1])
          /\ credentials.token = Some(call.text[1])
          /\ credentials.login = entry_credentials.login

\* an authentication as user2 has failed on a client that had user1
\* recorded: the request carried user2, and user2 is recorded
C16_Witness ==
    /\ Returned("authenticate_with_password")
    /\ ~result[1].ok
    /\ entry_credentials.login = Some(<<"user1", "pass1">>)
    /\ call.text = <<"user2", "pass2">>
    /\ sent[1].auth = Some(<<"user2", "pass2">>)
    /\ credentials.login = Some(<<"user2", "pass2">>)

\* C17: every invocation that has begun comes to return, with a result
\* (a success or an error) and with every collaborator call it issued
\* answered; and when scrobble_batch issues its call, it is its only call
\* and all n <= 50 records of the batch have been processed, each with its
\* clock read.
C17_EveryOperationCompletes ==
    /\ [](pc = "done" => (result # None /\ Len(answers) = Len(sent)))
    /\ []((Running("scrobble_batch") /\ sent # <<>>) =>
              /\ Len(sent) = 1
              /\ Len(call.batch) <= MaxBatchSize
              /\ i = Len(call.batch)
              /\ reads = Len(call.batch))
    /\ (pc # "idle") ~> (pc = "done")

\* a batch of 50 records has returned after 50 iterations and its one call,
\* which was answered
C17_Witness ==
    /\ Returned("scrobble_batch")
    /\ Len(call.batch) = MaxBatchSize
    /\ reads = MaxBatchSize
    /\ Len(sent) = 1
    /\ Len(answers) = 1
    /\ result # None

====
